---------------------------- MODULE Spec2Model ----------------------------
(***************************************************************************)
(* Model of the DAWS event reporter (src/src/dawsReporter.cpp).            *)
(*                                                                         *)
(* Reporter objects are numbered 1, 2, ... in the order their storage is   *)
(* constructed; 0 stands for nullptr.  A pointer to a report_t is the pair *)
(* [rep, slot]: the reporter that owns the storage and which of its two    *)
(* members (_lastRep or _overRunRep) it is.                                *)
(***************************************************************************)
EXTENDS Integers, Sequences, FiniteSets, TLC

VARIABLES
    reporters,         \* the Reporter objects constructed so far, by address
    firstReporter,     \* Reporter::_firstReporter
    lastInstantiated,  \* Reporter::_lastInstantiated
    lastId,            \* Reporter::_lastId (byte)
    reportQueue,       \* Reporter::_reportQueue: the messages the rtos queue holds
    overRunCount,      \* Reporter::_overRunCount (uint16_t)
    queueFullCount,    \* Reporter::_queueFullCount (uint16_t)
    rd,                \* the report_t the consumer passes as rdp
    consumer,          \* the consumer thread: Idle, or Waiting in try_get_for
    ret,               \* the call that completed last and what it returned
    putCount,          \* history: successful try_put calls so far
    getCount,          \* history: successful try_get_for calls so far
    calls,             \* history: queueReport calls made so far, by reporter
    threads,           \* the calls in progress when calls run statement by statement
    paths              \* history: calls that took the overrun and the queue-full branch

vars == <<reporters, firstReporter, lastInstantiated, lastId, reportQueue,
          overRunCount, queueFullCount, rd, consumer, ret, putCount, getCount, calls,
          threads, paths>>

---------------------------------------------------------------------------
(* Program constants *)

\* rtos::Queue<report_t, 16>
QUEUE_SIZE == 16
\* enum EventType : byte
REPORT_OVERRUN == 0
LOCO_STOP == 1
VL53_RANGE_CLOSE == 2
\* byte _lastId, _id
ByteMod == 256
\* volatile uint16_t counters
Uint16Mod == 65536
\* nullptr
NullReporter == 0
\* what stands for a value that is not there: the content of storage no code
\* has written (and none reads before writing it), an argument a call has not
Indeterminate == -1

(* Bounds of the model *)

\* reporters constructed in Spec
MaxReporters == 2
\* queueReport calls in Spec
MaxCalls == 2
\* queueReport calls in SpecBurst
BurstCalls == 18
\* constructions in SpecStartup
StartupReporters == 257
\* queueReport calls in SpecStalled
StalledCalls == 65553

\* the event types and payloads the callers of Spec pass
EventTypes == {LOCO_STOP, VL53_RANGE_CLOSE}
Infos == {7}
\* micros() readings: 0 is the reading at start and at wrap-around, 1 stands
\* for any other
Micros == {0, 1}
\* the wait times the consumer passes: 0 polls, 1 stands for any positive one
WaitTimes == {0, 1}
\* ids the caller passes to Reporter(ReporterType, byte)
GivenIds == {1}

---------------------------------------------------------------------------
(* report_t and the two report_t members of a Reporter *)

report_t(repType, source, timeStampIn, timeStampOut, info) ==
    [repType |-> repType, source |-> source, timeStampIn |-> timeStampIn,
     timeStampOut |-> timeStampOut, info |-> info]

\* a report_t no code has written yet, its timeStampIn being tsIn
Unwritten(tsIn, tsOut) ==
    report_t(Indeterminate, Indeterminate, tsIn, tsOut, Indeterminate)

Ref(r, slot) == [rep |-> r, slot |-> slot]
NullRef == [rep |-> NullReporter, slot |-> "none"]

\* history: the call that completed last: the report_t it used or returned (rp),
\* what it returned (ok), the number of the put that inserted the message (seq)
\* and the arguments of a queueReport call
Returned(op, rp, ok, seq, args) ==
    [op |-> op, rep |-> rp.rep, slot |-> rp.slot, ok |-> ok, seq |-> seq,
     repType |-> args.repType, info |-> args.info, waitTime |-> args.waitTime]

NoArgs == [repType |-> Indeterminate, info |-> Indeterminate, waitTime |-> Indeterminate]

ReportArgs(repType, info) ==
    [repType |-> repType, info |-> info, waitTime |-> Indeterminate]

WaitArgs(waitTime) ==
    [repType |-> Indeterminate, info |-> Indeterminate, waitTime |-> waitTime]

\* the consumer thread: outside tryGetReport, or blocked in try_get_for
Idle == [pc |-> "idle", waitTime |-> 0]
Waiting(waitTime) == [pc |-> "waiting", waitTime |-> waitTime]

\* the contexts (threads, interrupt handlers) that call queueReport when calls
\* run statement by statement: context c reports for reporter c
Contexts == {1, 2}

\* a context outside queueReport, and the consumer outside tryGetReport
NoCall == [pc |-> "idle", repType |-> Indeterminate, info |-> Indeterminate,
           overRun |-> FALSE, count |-> Indeterminate]
NoGet == [pc |-> "idle", rsp |-> NullRef, seq |-> 0]

\* entered and got are history: the calls begun statement by statement
NoThreads == [queueReport |-> [c \in Contexts |-> NoCall], tryGetReport |-> NoGet,
              entered |-> [c \in Contexts |-> 0], got |-> 0]

Deref(rs, rp) == rs[rp.rep][rp.slot]

Store(rs, rp, rec) == [rs EXCEPT ![rp.rep][rp.slot] = rec]

Constructed == 1..Len(reporters)

---------------------------------------------------------------------------
(* rtos::Queue<report_t, 16>: a message is the pointer put; seq is history, *)
(* the number of the successful put that inserted it.                       *)

\* (faulty variant: one message more fits)
QueueCanPutOneMore(q) == Len(q) <= QUEUE_SIZE

\* (faulty variant: one message fewer fits)
QueueCanPutOneLess(q) == Len(q) < QUEUE_SIZE - 1

\* bool try_put(T *data): FALSE and no change when the queue holds 16
QueueCanPut(q) == Len(q) < QUEUE_SIZE

\* (faulty variant: the caller waits for room, as with try_put_for)
PutWaitsForRoom(q) == Len(q) >= QUEUE_SIZE

\* try_put is try_put_for with no wait: the caller is never suspended
PutWaits(q) == FALSE

\* (faulty variant: the message is put in front, as a put with a priority would)
QueueAfterPutInFront(q, msg) == <<msg>> \o q

QueueAfterPut(q, msg) == Append(q, msg)

\* bool try_get_for(rel_time, T **data_out): the oldest message
QueueFront(q) == Head(q)

QueueAfterGet(q) == Tail(q)

---------------------------------------------------------------------------
(* Construction *)

\* (faulty variant: the link is not set)
LinkNothing(rs, this, newReporter) == rs

\* void Reporter::_link(Reporter* newReporter)
Link(rs, this, newReporter) == [rs EXCEPT ![this].nextReporter = newReporter]

\* the chaining both constructors do: the new object is `this`
Chain(this, newObj) ==
    /\ firstReporter' = IF firstReporter = NullReporter THEN this ELSE firstReporter
    /\ reporters' = IF firstReporter = NullReporter
                      THEN Append(reporters, newObj)
                      ELSE Append(Link(reporters, lastInstantiated, this), newObj)
    /\ lastInstantiated' = this

\* _id = ++_lastId on a byte
NextId(last) == (last + 1) % ByteMod

\* Reporter::Reporter(ReporterType): _overRunRep is left unwritten; what the
\* timestamps of unwritten storage read as (g) is 0 in static storage and
\* anything elsewhere
ConstructAuto(limit, fills) ==
    /\ Len(reporters) < limit
    /\ \E g \in fills :
         LET this == Len(reporters) + 1
             id == NextId(lastId)
         IN /\ lastId' = id
            /\ Chain(this, [id |-> id, autoId |-> TRUE, nextReporter |-> NullReporter,
                            lastRep |-> Unwritten(0, 0),
                            overRunRep |-> Unwritten(g, Indeterminate)])
            /\ ret' = Returned("construct", Ref(this, "none"), TRUE, 0, NoArgs)
    /\ calls' = Append(calls, 0)
    /\ UNCHANGED <<reportQueue, overRunCount, queueFullCount, rd, consumer,
                   putCount, getCount, threads, paths>>

\* Reporter::Reporter(ReporterType, byte): neither report_t is written
ConstructWithId(limit, fills) ==
    /\ Len(reporters) < limit
    /\ \E id \in GivenIds, g \in fills :
         LET this == Len(reporters) + 1
         IN /\ Chain(this, [id |-> id, autoId |-> FALSE, nextReporter |-> NullReporter,
                            lastRep |-> Unwritten(g, Indeterminate),
                            overRunRep |-> Unwritten(g, Indeterminate)])
            /\ ret' = Returned("construct", Ref(this, "none"), TRUE, 0, NoArgs)
    /\ calls' = Append(calls, 0)
    /\ UNCHANGED <<lastId, reportQueue, overRunCount, queueFullCount, rd, consumer,
                   putCount, getCount, threads, paths>>

\* Reporter* Reporter::getFirstReporter()
getFirstReporter == firstReporter

\* Reporter* Reporter::getNextReporter()
getNextReporter(r) == reporters[r].nextReporter

\* byte Reporter::getId()
getId(r) == reporters[r].id

\* the reporters a caller visits from r by getNextReporter until nullptr, in
\* at most n steps (NullReporter - 1 ends a walk that did not reach nullptr)
RECURSIVE Walk(_, _)
Walk(r, n) ==
    IF r = NullReporter THEN <<>>
    ELSE IF n = 0 THEN <<NullReporter - 1>>
    ELSE <<r>> \o Walk(getNextReporter(r), n - 1)

\* for (r = getFirstReporter(); r != nullptr; r = r->getNextReporter())
Traversal == Walk(getFirstReporter, Len(reporters))

---------------------------------------------------------------------------
(* void Reporter::queueReport(EventType repType, int info) *)

Inc16(n) == (n + 1) % Uint16Mod

\* history: one more call through `if (overRun)`
TakenOverRun(p, overRun) ==
    [p EXCEPT !.overRun = @ + (IF overRun THEN 1 ELSE 0)]

\* history: one more call through `if (!try_put(rp))`; dropped is the reporters
\* of which a report written to the current record was not put
TakenQueueFull(p, this, slot, queueFull) ==
    [p EXCEPT !.queueFull = @ + (IF queueFull THEN 1 ELSE 0),
              !.dropped = IF queueFull /\ slot = "lastRep" THEN @ \cup {this} ELSE @]

\* bool overRun = (_lastRep.timeStampIn > 0)
OverRun(rs, this) == rs[this].lastRep.timeStampIn > 0

\* (faulty variant: the overrun report is written over the current record)
ReportSlotCurrent(overRun) == "lastRep"

\* report_t* rp
ReportSlot(overRun) == IF overRun THEN "overRunRep" ELSE "lastRep"

\* (faulty variant: the overrun report keeps the info passed)
ReportWrittenWithInfo(overRun, this, repType, info, now) ==
    report_t(IF overRun THEN REPORT_OVERRUN ELSE repType, this, now, 0, info)

\* what the call writes to *rp: on an overrun the report type is kept as info
ReportWritten(overRun, this, repType, info, now) ==
    IF overRun
      THEN report_t(REPORT_OVERRUN, this, now, 0, repType)
      ELSE report_t(repType, this, now, 0, info)

QueueReport(this, repType, info, now) ==
    LET overRun == OverRun(reporters, this)
        rp == Ref(this, ReportSlot(overRun))
        put == QueueCanPut(reportQueue)
    IN /\ this \in Constructed
       /\ ~PutWaits(reportQueue)
       /\ reporters' = Store(reporters, rp,
                             ReportWritten(overRun, this, repType, info, now))
       /\ overRunCount' = IF overRun THEN Inc16(overRunCount) ELSE overRunCount
       /\ reportQueue' = IF put
                           THEN QueueAfterPut(reportQueue,
                                              [rp |-> rp, seq |-> putCount + 1])
                           ELSE reportQueue
       /\ putCount' = IF put THEN putCount + 1 ELSE putCount
       /\ queueFullCount' = IF put THEN queueFullCount ELSE Inc16(queueFullCount)
       /\ ret' = Returned("queueReport", rp, put, IF put THEN putCount + 1 ELSE 0,
                           ReportArgs(repType, info))
       /\ calls' = [calls EXCEPT ![this] = @ + 1]
       /\ paths' = TakenQueueFull(TakenOverRun(paths, overRun), this, rp.slot, ~put)
       /\ UNCHANGED <<firstReporter, lastInstantiated, lastId, rd, consumer, getCount,
                      threads>>

---------------------------------------------------------------------------
(* bool Reporter::tryGetReport(report_t* rdp, duration_u32 waitTime) *)

\* what is copied to *rdp
Copied(src, now) ==
    report_t(src.repType, src.source, src.timeStampIn, now, src.info)

\* (faulty variant: the time in is not cleared)
ReleasedNotCleared(src, now) == [src EXCEPT !.timeStampOut = now]

\* what is left in *rsp: the time out is set and the time in is cleared
Released(src, now) == [src EXCEPT !.timeStampOut = now, !.timeStampIn = 0]

\* the branch taken when try_get_for returns a message
CopyOut(waitTime, now) ==
    LET msg == QueueFront(reportQueue)
        rsp == msg.rp
        src == Deref(reporters, rsp)
    IN /\ reportQueue' = QueueAfterGet(reportQueue)
       /\ rd' = Copied(src, now)
       /\ reporters' = Store(reporters, rsp, Released(src, now))
       /\ getCount' = getCount + 1
       /\ consumer' = Idle
       /\ ret' = Returned("tryGetReport", rsp, TRUE, msg.seq, WaitArgs(waitTime))

\* the branch taken when try_get_for returns false
NotFound(waitTime) ==
    /\ consumer' = Idle
    /\ ret' = Returned("tryGetReport", NullRef, FALSE, 0, WaitArgs(waitTime))
    /\ UNCHANGED <<reporters, reportQueue, rd, getCount>>

\* (faulty variant: the wait time is not looked at)
GetWaitsAlways(q, waitTime) == q = <<>>

\* try_get_for suspends the caller when there is no message and time to wait
GetWaits(q, waitTime) == q = <<>> /\ waitTime > 0

\* the call: a message is there, or the thread waits, or nothing is found
TryGetReport(waitTime, now) ==
    /\ consumer = Idle
    /\ IF reportQueue # <<>>
         THEN CopyOut(waitTime, now)
         ELSE IF GetWaits(reportQueue, waitTime)
                THEN /\ consumer' = Waiting(waitTime)
                     /\ UNCHANGED <<reporters, reportQueue, rd, getCount, ret>>
                ELSE NotFound(waitTime)
    /\ UNCHANGED <<firstReporter, lastInstantiated, lastId, overRunCount,
                   queueFullCount, putCount, calls, threads, paths>>

\* a message arrives while the consumer waits in try_get_for
TryGetWake(now) ==
    /\ consumer.pc = "waiting"
    /\ reportQueue # <<>>
    /\ CopyOut(consumer.waitTime, now)
    /\ UNCHANGED <<firstReporter, lastInstantiated, lastId, overRunCount,
                   queueFullCount, putCount, calls, threads, paths>>

\* the wait time passes with no message
TryGetTimeout ==
    /\ consumer.pc = "waiting"
    /\ reportQueue = <<>>
    /\ NotFound(consumer.waitTime)
    /\ UNCHANGED <<firstReporter, lastInstantiated, lastId, overRunCount,
                   queueFullCount, putCount, calls, threads, paths>>

---------------------------------------------------------------------------
(* queueReport and tryGetReport statement by statement: what happens when   *)
(* the calls of several contexts are interleaved (a thread or an interrupt  *)
(* handler may preempt another between any two statements).                 *)

Frame(c) == threads.queueReport[c]

\* report_t* rp of the call of context c
Rp(c) == Ref(c, ReportSlot(Frame(c).overRun))

Goto(c, pc) == threads' = [threads EXCEPT !.queueReport[c].pc = pc]

\* bool overRun = (_lastRep.timeStampIn > 0)
QrEnter(c, repType, info) ==
    LET overRun == OverRun(reporters, c)
    IN /\ c \in Constructed
       /\ Frame(c).pc = "idle"
       /\ threads' = [threads EXCEPT !.queueReport[c] =
                         [pc |-> "repType", repType |-> repType, info |-> info,
                          overRun |-> overRun, count |-> Indeterminate],
                                     !.entered[c] = @ + 1]
       /\ calls' = [calls EXCEPT ![c] = @ + 1]
       /\ paths' = TakenOverRun(paths, overRun)
       /\ UNCHANGED <<reporters, firstReporter, lastInstantiated, lastId, reportQueue,
                      overRunCount, queueFullCount, rd, consumer, ret, putCount,
                      getCount>>

\* one assignment to a member of *rp
QrWrite(c, pc, field, now, next) ==
    /\ Frame(c).pc = pc
    /\ reporters' = [reporters EXCEPT ![c][Rp(c).slot][field] =
                        ReportWritten(Frame(c).overRun, c, Frame(c).repType,
                                      Frame(c).info, now)[field]]
    /\ Goto(c, next)
    /\ UNCHANGED <<firstReporter, lastInstantiated, lastId, reportQueue, overRunCount,
                   queueFullCount, rd, consumer, ret, putCount, getCount, calls, paths>>

\* rp->repType = REPORT_OVERRUN, or rp->repType = repType
QrRepType(c) == QrWrite(c, "repType", "repType", 0, "info")

\* _overRunRep.info = repType, or rp->info = info
QrInfo(c) == QrWrite(c, "info", "info", 0, IF Frame(c).overRun THEN "load" ELSE "source")

\* _overRunCount++ on a volatile uint16_t: the value is loaded ...
QrLoad(c) ==
    /\ Frame(c).pc = "load"
    /\ threads' = [threads EXCEPT !.queueReport[c].pc = "store",
                                  !.queueReport[c].count = overRunCount]
    /\ UNCHANGED <<reporters, firstReporter, lastInstantiated, lastId, reportQueue,
                   overRunCount, queueFullCount, rd, consumer, ret, putCount, getCount,
                   calls, paths>>

\* ... and the value loaded, plus one, is stored
QrStore(c) ==
    /\ Frame(c).pc = "store"
    /\ overRunCount' = Inc16(Frame(c).count)
    /\ Goto(c, "source")
    /\ UNCHANGED <<reporters, firstReporter, lastInstantiated, lastId, reportQueue,
                   queueFullCount, rd, consumer, ret, putCount, getCount, calls, paths>>

\* rp->source = this
QrSource(c) == QrWrite(c, "source", "source", 0, "timeStampIn")

\* rp->timeStampIn = micros()
QrTimeStampIn(c, now) == QrWrite(c, "timeStampIn", "timeStampIn", now, "timeStampOut")

\* rp->timeStampOut = 0
QrTimeStampOut(c) == QrWrite(c, "timeStampOut", "timeStampOut", 0, "try_put")

\* if (!_reportQueue.try_put(rp)): the call returns when the message is put
QrTryPut(c) ==
    LET put == QueueCanPut(reportQueue)
    IN /\ Frame(c).pc = "try_put"
       /\ reportQueue' = IF put
                           THEN QueueAfterPut(reportQueue,
                                              [rp |-> Rp(c), seq |-> putCount + 1])
                           ELSE reportQueue
       /\ putCount' = IF put THEN putCount + 1 ELSE putCount
       /\ paths' = TakenQueueFull(paths, c, Rp(c).slot, ~put)
       /\ threads' = [threads EXCEPT !.queueReport[c] =
                         IF put THEN NoCall ELSE [@ EXCEPT !.pc = "loadFull"]]
       /\ ret' = IF put
                   THEN Returned("queueReport", Rp(c), TRUE, putCount + 1,
                                 ReportArgs(Frame(c).repType, Frame(c).info))
                   ELSE ret
       /\ UNCHANGED <<reporters, firstReporter, lastInstantiated, lastId, overRunCount,
                      queueFullCount, rd, consumer, getCount, calls>>

\* _queueFullCount++: the value is loaded ...
QrLoadFull(c) ==
    /\ Frame(c).pc = "loadFull"
    /\ threads' = [threads EXCEPT !.queueReport[c].pc = "storeFull",
                                  !.queueReport[c].count = queueFullCount]
    /\ UNCHANGED <<reporters, firstReporter, lastInstantiated, lastId, reportQueue,
                   overRunCount, queueFullCount, rd, consumer, ret, putCount, getCount,
                   calls, paths>>

\* ... and stored, and the call returns
QrStoreFull(c) ==
    /\ Frame(c).pc = "storeFull"
    /\ queueFullCount' = Inc16(Frame(c).count)
    /\ threads' = [threads EXCEPT !.queueReport[c] = NoCall]
    /\ ret' = Returned("queueReport", Rp(c), FALSE, 0,
                       ReportArgs(Frame(c).repType, Frame(c).info))
    /\ UNCHANGED <<reporters, firstReporter, lastInstantiated, lastId, reportQueue,
                   overRunCount, rd, consumer, putCount, getCount, calls, paths>>

\* if (_reportQueue.try_get_for(waitTime, &rsp)) with no time to wait
TgTryGet ==
    /\ threads.tryGetReport.pc = "idle"
    /\ IF reportQueue = <<>>
         THEN /\ ret' = Returned("tryGetReport", NullRef, FALSE, 0, WaitArgs(0))
              /\ UNCHANGED <<reportQueue, getCount, threads>>
         ELSE /\ reportQueue' = QueueAfterGet(reportQueue)
              /\ getCount' = getCount + 1
              /\ threads' = [threads EXCEPT !.tryGetReport =
                                [pc |-> "repType", rsp |-> QueueFront(reportQueue).rp,
                                 seq |-> QueueFront(reportQueue).seq],
                                            !.got = @ + 1]
              /\ ret' = ret
    /\ UNCHANGED <<reporters, firstReporter, lastInstantiated, lastId, overRunCount,
                   queueFullCount, rd, consumer, putCount, calls, paths>>

\* one assignment to a member of *rdp
TgWrite(pc, field, value, next) ==
    /\ threads.tryGetReport.pc = pc
    /\ rd' = [rd EXCEPT ![field] = value]
    /\ threads' = [threads EXCEPT !.tryGetReport.pc = next]
    /\ UNCHANGED <<reporters, firstReporter, lastInstantiated, lastId, reportQueue,
                   overRunCount, queueFullCount, consumer, ret, putCount, getCount,
                   calls, paths>>

\* *rsp as it is now
Rs == Deref(reporters, threads.tryGetReport.rsp)

\* rdp->repType = rsp->repType
TgRepType == TgWrite("repType", "repType", Rs.repType, "source")

\* rdp->source = rsp->source
TgSource == TgWrite("source", "source", Rs.source, "info")

\* rdp->info = rsp->info
TgInfo == TgWrite("info", "info", Rs.info, "timeStampIn")

\* rdp->timeStampIn = rsp->timeStampIn
TgTimeStampIn == TgWrite("timeStampIn", "timeStampIn", Rs.timeStampIn, "timeStampOut")

\* rdp->timeStampOut = micros()
TgTimeStampOut(now) == TgWrite("timeStampOut", "timeStampOut", now, "sourceOut")

\* rsp->timeStampOut = rdp->timeStampOut
TgSourceOut ==
    /\ threads.tryGetReport.pc = "sourceOut"
    /\ reporters' = Store(reporters, threads.tryGetReport.rsp,
                          [Rs EXCEPT !.timeStampOut = rd.timeStampOut])
    /\ threads' = [threads EXCEPT !.tryGetReport.pc = "clear"]
    /\ UNCHANGED <<firstReporter, lastInstantiated, lastId, reportQueue, overRunCount,
                   queueFullCount, rd, consumer, ret, putCount, getCount, calls, paths>>

\* rsp->timeStampIn = 0; return(true)
TgClear ==
    /\ threads.tryGetReport.pc = "clear"
    /\ reporters' = Store(reporters, threads.tryGetReport.rsp,
                          [Rs EXCEPT !.timeStampIn = 0])
    /\ threads' = [threads EXCEPT !.tryGetReport = NoGet]
    /\ ret' = Returned("tryGetReport", threads.tryGetReport.rsp, TRUE,
                       threads.tryGetReport.seq, WaitArgs(0))
    /\ UNCHANGED <<firstReporter, lastInstantiated, lastId, reportQueue, overRunCount,
                   queueFullCount, rd, consumer, putCount, getCount, calls, paths>>

---------------------------------------------------------------------------
(* Specifications *)

Init ==
    /\ reporters = <<>>
    /\ firstReporter = NullReporter
    /\ lastInstantiated = NullReporter
    /\ lastId = 0
    /\ reportQueue = <<>>
    /\ overRunCount = 0
    /\ queueFullCount = 0
    /\ rd = Unwritten(Indeterminate, Indeterminate)
    /\ consumer = Idle
    /\ ret = Returned("none", NullRef, FALSE, 0, NoArgs)
    /\ putCount = 0
    /\ getCount = 0
    /\ calls = <<>>
    /\ threads = NoThreads
    /\ paths = [overRun |-> 0, queueFull |-> 0, dropped |-> {}]

RECURSIVE SumTo(_, _)
SumTo(s, n) == IF n = 0 THEN 0 ELSE s[n] + SumTo(s, n - 1)

\* queueReport calls made so far
Calls == SumTo(calls, Len(calls))

(* Spec: a few reporters built by either constructor at any time, a few *)
(* queueReport calls with any arguments, the consumer polling or waiting. *)

Submit ==
    \E r \in Constructed, t \in EventTypes, i \in Infos, now \in Micros :
        Calls < MaxCalls /\ QueueReport(r, t, i, now)

Retrieve == \E w \in WaitTimes, now \in Micros : TryGetReport(w, now)

Wake == \E now \in Micros : TryGetWake(now)

Next ==
    \/ ConstructAuto(MaxReporters, Micros)
    \/ ConstructWithId(MaxReporters, Micros)
    \/ Submit
    \/ Retrieve
    \/ Wake
    \/ TryGetTimeout

Spec == Init /\ [][Next]_vars

(* SpecFair: Spec with a consumer that keeps calling tryGetReport: the     *)
(* consumer thread is scheduled again and again (it calls whenever it is   *)
(* outside a call), and a try_get_for that waits ends when a message       *)
(* arrives or when its time has passed.                                    *)

SpecFair ==
    /\ Init /\ [][Next]_vars
    /\ WF_vars(Retrieve)
    /\ WF_vars(Wake)
    /\ WF_vars(TryGetTimeout)

(* SpecBurst: three reporters in static storage are built at start-up by *)
(* the first constructor; the n-th queueReport call of the run reports the *)
(* event BurstEvent(n), so that all events differ; the first reporter may  *)
(* call any number of times, the others once each; the consumer thread     *)
(* (of lower priority than the reporting threads) first runs when the      *)
(* burst of QUEUE_SIZE calls is over.                                       *)

BurstProducers == {1, 2, 3}

BurstEvent(n) ==
    [repType |-> IF n % 2 = 1 THEN LOCO_STOP ELSE VL53_RANGE_CLOSE, info |-> n]

BurstMicros == {1}

BurstConstruct ==
    Calls = 0 /\ ConstructAuto(Cardinality(BurstProducers), {0})

BurstSubmit ==
    \E r \in Constructed, now \in BurstMicros :
        /\ Len(reporters) = Cardinality(BurstProducers)
        /\ Calls < BurstCalls
        /\ r > 1 => calls[r] = 0
        /\ QueueReport(r, BurstEvent(Calls + 1).repType, BurstEvent(Calls + 1).info, now)

BurstRetrieve ==
    \E w \in WaitTimes, now \in BurstMicros :
        Calls >= QUEUE_SIZE /\ TryGetReport(w, now)

BurstWake == \E now \in BurstMicros : TryGetWake(now)

NextBurst ==
    \/ BurstConstruct
    \/ BurstSubmit
    \/ BurstRetrieve
    \/ BurstWake
    \/ TryGetTimeout

SpecBurst == Init /\ [][NextBurst]_vars

(* SpecColdStart: the burst of SpecBurst, with the first queueReport call *)
(* made as micros() starts counting (or wraps around) and so may read 0.  *)

\* micros() readings of a call made after n others
ColdMicros(n) == IF n = 0 THEN {0} \cup BurstMicros ELSE BurstMicros

ColdSubmit ==
    \E r \in Constructed, now \in ColdMicros(Calls) :
        /\ Len(reporters) = Cardinality(BurstProducers)
        /\ Calls < BurstCalls
        /\ r > 1 => calls[r] = 0
        /\ QueueReport(r, BurstEvent(Calls + 1).repType, BurstEvent(Calls + 1).info, now)

NextColdStart ==
    \/ BurstConstruct
    \/ ColdSubmit
    \/ BurstRetrieve
    \/ BurstWake
    \/ TryGetTimeout

SpecColdStart == Init /\ [][NextColdStart]_vars

(* SpecStartup: start-up alone, every reporter built by the first *)
(* constructor in static storage.                                  *)

NextStartup == ConstructAuto(StartupReporters, {0})

SpecStartup == Init /\ [][NextStartup]_vars

(* SpecStalled: one reporter keeps reporting while the consumer thread *)
(* never runs.                                                         *)

StalledConstruct == ConstructAuto(1, {0})

StalledSubmit ==
    /\ Calls < StalledCalls
    /\ QueueReport(1, LOCO_STOP, 7, 1)

NextStalled == StalledConstruct \/ StalledSubmit

SpecStalled == Init /\ [][NextStalled]_vars

(* SpecThreads: two reporters in static storage, each reporting from a    *)
(* context of its own.  At first the calls do not overlap: reporter 1      *)
(* reports and the consumer polls, each call running to its end.  Then     *)
(* the calls run statement by statement and any context may run between    *)
(* two statements of another.  The n-th call reports BurstEvent(n).        *)

\* the calls that do not overlap: queueReport calls, successful tryGetReport calls
QuietCalls == 16
QuietGets == 1
\* the calls made statement by statement: queueReport calls of context 1, of
\* context 2, and tryGetReport calls that find a message
ThreadCalls == 1
SideCalls == 2
ThreadGets == 1

ThreadLimit(c) == IF c = 1 THEN ThreadCalls ELSE SideCalls

\* no call is in progress and none was made statement by statement
Quiet == threads = NoThreads

ThreadConstruct == Calls = 0 /\ ConstructAuto(Cardinality(Contexts), {0})

QuietSubmit ==
    \E now \in BurstMicros :
        /\ Quiet
        /\ Len(reporters) = Cardinality(Contexts)
        /\ Calls < QuietCalls
        /\ QueueReport(1, BurstEvent(Calls + 1).repType, BurstEvent(Calls + 1).info, now)

QuietRetrieve ==
    \E now \in BurstMicros :
        Quiet /\ getCount < QuietGets /\ TryGetReport(0, now)

ThreadEnter ==
    \E c \in Contexts :
        /\ Len(reporters) = Cardinality(Contexts)
        /\ threads.entered[c] < ThreadLimit(c)
        /\ QrEnter(c, BurstEvent(Calls + 1).repType, BurstEvent(Calls + 1).info)

ThreadRepType == \E c \in Contexts : QrRepType(c)
ThreadInfo == \E c \in Contexts : QrInfo(c)
ThreadLoad == \E c \in Contexts : QrLoad(c)
ThreadStore == \E c \in Contexts : QrStore(c)
ThreadSource == \E c \in Contexts : QrSource(c)
ThreadTimeStampIn == \E c \in Contexts, now \in BurstMicros : QrTimeStampIn(c, now)
ThreadTimeStampOut == \E c \in Contexts : QrTimeStampOut(c)
ThreadTryPut == \E c \in Contexts : QrTryPut(c)
ThreadLoadFull == \E c \in Contexts : QrLoadFull(c)
ThreadStoreFull == \E c \in Contexts : QrStoreFull(c)

ThreadTryGet == threads.got < ThreadGets /\ TgTryGet

ThreadStampOut == \E now \in BurstMicros : TgTimeStampOut(now)

NextThreads ==
    \/ ThreadConstruct
    \/ QuietSubmit
    \/ QuietRetrieve
    \/ ThreadEnter
    \/ ThreadRepType
    \/ ThreadInfo
    \/ ThreadLoad
    \/ ThreadStore
    \/ ThreadSource
    \/ ThreadTimeStampIn
    \/ ThreadTimeStampOut
    \/ ThreadTryPut
    \/ ThreadLoadFull
    \/ ThreadStoreFull
    \/ ThreadTryGet
    \/ TgRepType
    \/ TgSource
    \/ TgInfo
    \/ TgTimeStampIn
    \/ ThreadStampOut
    \/ TgSourceOut
    \/ TgClear

SpecThreads == Init /\ [][NextThreads]_vars

---------------------------------------------------------------------------
(* Properties *)

\* the step is a queueReport call of reporter r
Called(r) == Len(calls') = Len(calls) /\ calls'[r] = calls[r] + 1

\* the call that completed last is a tryGetReport that returned true
Got == ret.op = "tryGetReport" /\ ret.ok

\* the call that completed last is a queueReport
Reported == ret.op = "queueReport"

\* C1 (FIFO delivery): the messages in the queue are those of the puts not yet
\* retrieved, oldest first, and the k-th successful tryGetReport returns the
\* pointer that the k-th successful try_put inserted: no insertion is
\* reordered, skipped or returned twice.
C1_Fifo ==
    /\ Len(reportQueue) = putCount - getCount
    /\ \A i \in 1..Len(reportQueue) : reportQueue[i].seq = getCount + i
    /\ Got => ret.seq = getCount

\* two reporters have each inserted one report and both were retrieved
C1_Witness ==
    /\ Got
    /\ getCount = 2
    /\ Len(calls) = 2 /\ calls[1] = 1 /\ calls[2] = 1

\* C2 (overrun detection), amended: a queueReport call of a reporter whose
\* current record is unacknowledged uses the overrun record, writes the overrun
\* type and, as info, the report type passed to this call, adds 1 to the
\* overrun counter modulo 2^16, and appends exactly one message, the pointer to
\* the overrun record, unless the queue is full: then the queue is unchanged
\* and the queue-full counter advances.
C2_OverrunStep(r) ==
    Called(r) /\ reporters[r].lastRep.timeStampIn # 0 =>
        /\ ret'.slot = "overRunRep"
        /\ reporters'[r].overRunRep.repType = REPORT_OVERRUN
        /\ reporters'[r].overRunRep.info = ret'.repType
        /\ overRunCount' = (overRunCount + 1) % Uint16Mod
        /\ IF Len(reportQueue) < QUEUE_SIZE
             THEN /\ Len(reportQueue') = Len(reportQueue) + 1
                  /\ SubSeq(reportQueue', 1, Len(reportQueue)) = reportQueue
                  /\ reportQueue'[Len(reportQueue')].rp = Ref(r, "overRunRep")
                  /\ queueFullCount' = queueFullCount
             ELSE /\ reportQueue' = reportQueue
                  /\ queueFullCount' = (queueFullCount + 1) % Uint16Mod

C2_Overrun == [][\A r \in Constructed : C2_OverrunStep(r)]_vars

\* a reporter whose earlier report is unacknowledged has reported an event of
\* another type, and the overrun report was inserted
C2_Witness ==
    /\ Reported /\ ret.slot = "overRunRep" /\ ret.ok
    /\ reporters[ret.rep].lastRep.source = ret.rep
    /\ reporters[ret.rep].lastRep.timeStampIn # 0
    /\ reporters[ret.rep].lastRep.repType # ret.repType

\* C2 as claimed: the overrun report carries the type of the original (first)
\* event, one message always reaches the queue and the counter grows by 1.
C2_OriginalStep(r) ==
    Called(r) /\ reporters[r].lastRep.timeStampIn # 0
              /\ reporters[r].lastRep.source = r =>
        /\ ret'.slot = "overRunRep"
        /\ reporters'[r].overRunRep.repType = REPORT_OVERRUN
        /\ reporters'[r].overRunRep.info = reporters[r].lastRep.repType
        /\ overRunCount' = overRunCount + 1
        /\ Len(reportQueue') = Len(reportQueue) + 1
        /\ reportQueue'[Len(reportQueue')].rp = Ref(r, "overRunRep")

C2_Original == [][\A r \in Constructed : C2_OriginalStep(r)]_vars

\* C3 (slot reuse), amended: a report_t the consumer has retrieved has
\* timeStampIn = 0; a current record with timeStampIn = 0 stays so until its
\* reporter's next queueReport call, and that call is a fresh submission: it
\* uses the current record with the given type and info and leaves the overrun
\* counter alone.  (Retrieving a reporter's overrun record frees the overrun
\* record only.)
C3_Released == Got => Deref(reporters, Ref(ret.rep, ret.slot)).timeStampIn = 0

C3_FreshStep(r) ==
    Called(r) /\ reporters[r].lastRep.timeStampIn = 0 =>
        /\ ret'.slot = "lastRep"
        /\ reporters'[r].lastRep.repType = ret'.repType
        /\ reporters'[r].lastRep.info = ret'.info
        /\ overRunCount' = overRunCount

C3_StaysFree(r) ==
    reporters[r].lastRep.timeStampIn = 0 /\ reporters'[r].lastRep.timeStampIn # 0
        => Called(r)

C3_SlotReuse ==
    /\ []C3_Released
    /\ [][\A r \in Constructed : C3_FreshStep(r) /\ C3_StaysFree(r)]_vars

\* a reporter that reported before reports afresh after a retrieval
C3_Witness ==
    /\ Reported /\ ret.slot = "lastRep"
    /\ calls[ret.rep] >= 2
    /\ getCount >= 1

\* C3 as claimed: the queueReport call that follows the retrieval of any record
\* of the reporter is a fresh submission.
C3_OriginalStep(r) ==
    Got /\ ret.rep = r /\ Called(r) =>
        ret'.slot = "lastRep" /\ overRunCount' = overRunCount

C3_Original ==
    /\ []C3_Released
    /\ [][\A r \in Constructed : C3_OriginalStep(r)]_vars

\* C4 (drop under saturation) as claimed: a queueReport call made when the
\* queue holds QUEUE_SIZE messages returns, adds exactly 1 to the queue-full
\* counter and leaves the queue as it is, so that no more than QUEUE_SIZE
\* messages can be retrieved.
C4_DropStep(r) ==
    Called(r) /\ Len(reportQueue) = QUEUE_SIZE =>
        /\ ret'.op = "queueReport" /\ ret'.rep = r /\ ~ret'.ok
        /\ queueFullCount' = queueFullCount + 1
        /\ reportQueue' = reportQueue

C4_Drop ==
    /\ [](Len(reportQueue) <= QUEUE_SIZE)
    /\ [][\A r \in Constructed : C4_DropStep(r)]_vars

\* the call, among those whose messages are m and the ones still queued, that
\* wrote reporter r's overrun record last
LastOverRun(r, m) ==
    LET later == {i \in 1..Len(reportQueue) : reportQueue[i].rp = Ref(r, "overRunRep")}
    IN IF later = {} THEN m
       ELSE reportQueue[CHOOSE i \in later : \A j \in later : j <= i].seq

\* C5 (scenario), amended: QUEUE_SIZE queueReport calls of three reporters with
\* no retrieval in between are all inserted (queue-full counter 0), but only
\* the first call of each reporter is a fresh submission: the others are
\* overruns, so the overrun counter is QUEUE_SIZE less the number of reporters
\* that called (13 for three).  The retrievals return the pointers in call
\* order; a current record comes with the type and info of its call, an
\* overrun record with the overrun type and, as info, the type of that
\* reporter's last overrunning call.  A 17th call before any retrieval sets
\* the queue-full counter to 1.
C5_Scenario ==
    /\ Calls = QUEUE_SIZE /\ getCount = 0 =>
           /\ Len(reportQueue) = QUEUE_SIZE
           /\ queueFullCount = 0
           /\ overRunCount = QUEUE_SIZE - Cardinality({r \in Constructed : calls[r] > 0})
           /\ (\A r \in BurstProducers : calls[r] > 0) => overRunCount = 13
    /\ Calls = QUEUE_SIZE /\ Got =>
           /\ ret.seq = getCount
           /\ queueFullCount = 0
           /\ IF ret.slot = "lastRep"
                THEN /\ rd.repType = BurstEvent(ret.seq).repType
                     /\ rd.info = BurstEvent(ret.seq).info
                ELSE /\ rd.repType = REPORT_OVERRUN
                     /\ rd.info = BurstEvent(LastOverRun(ret.rep, ret.seq)).repType
    /\ Calls = QUEUE_SIZE + 1 /\ getCount = 0 =>
           queueFullCount = 1 /\ Len(reportQueue) = QUEUE_SIZE

\* three reporters have made the 16 calls and all 16 messages were retrieved
C5_Witness ==
    /\ Got
    /\ Calls = QUEUE_SIZE /\ getCount = QUEUE_SIZE
    /\ \A r \in BurstProducers : calls[r] > 0

\* C5 as claimed: every one of the 16 retrievals returns the event of the call
\* with that number, and the overrun and queue-full counters are 0.
C5_Original ==
    /\ Calls = QUEUE_SIZE /\ Got /\ (\A r \in BurstProducers : calls[r] > 0) =>
           /\ ret.seq = getCount
           /\ rd.repType = BurstEvent(ret.seq).repType
           /\ rd.info = BurstEvent(ret.seq).info
           /\ overRunCount = 0
           /\ queueFullCount = 0
    /\ Calls = QUEUE_SIZE + 1 /\ getCount = 0 => queueFullCount = 1

\* C6 (registry): the traversal from getFirstReporter by getNextReporter visits
\* the reporters constructed, in construction order, and ends at nullptr (it
\* is empty when none is constructed); a construction appends the new
\* reporter to it and no other step changes it.
C6_Complete == Traversal = [i \in 1..Len(reporters) |-> i]

C6_StableStep ==
    IF Len(reporters') = Len(reporters)
      THEN Traversal' = Traversal
      ELSE Traversal' = Append(Traversal, Len(reporters'))

C6_Registry == []C6_Complete /\ [][C6_StableStep]_vars

\* two reporters, one built by each constructor, after a report was retrieved
C6_Witness ==
    /\ Len(reporters) = 2
    /\ reporters[1].autoId # reporters[2].autoId
    /\ getCount >= 1
    /\ Traversal = <<1, 2>>

\* C7 (timeout semantics): tryGetReport with wait time 0 on an empty queue
\* returns false in that step, without waiting; and a tryGetReport that returns
\* false (at once or after its wait) changes no report_t, no counter, not the
\* queue and not the caller's report_t.
C7_PollStep ==
    reportQueue = <<>> /\ (\E now \in Micros : TryGetReport(0, now)) =>
        /\ consumer' = Idle
        /\ ret'.op = "tryGetReport" /\ ~ret'.ok

C7_NotFoundStep ==
    ret'.op = "tryGetReport" /\ ~ret'.ok =>
        UNCHANGED <<reporters, reportQueue, rd, overRunCount, queueFullCount>>

C7_Timeout == [][C7_PollStep /\ C7_NotFoundStep]_vars

\* a poll of the empty queue has returned false after earlier traffic
C7_Witness ==
    /\ ret.op = "tryGetReport" /\ ~ret.ok /\ ret.waitTime = 0
    /\ consumer = Idle
    /\ reportQueue = <<>>
    /\ getCount >= 1

\* C8 (submit never blocks): in every state, whatever the queue holds and
\* whether the consumer runs, waits or has stopped, every constructed reporter
\* can make and complete a queueReport call, with any arguments, in one step of
\* its own.
C8_NeverBlocks ==
    \A r \in Constructed, t \in EventTypes, i \in Infos, now \in BurstMicros :
        ENABLED (QueueReport(r, t, i, now) /\ ret'.op = "queueReport" /\ ret'.rep = r)

\* a call has completed on the full queue
C8_Witness ==
    /\ Reported /\ ~ret.ok
    /\ Len(reportQueue) = QUEUE_SIZE

\* C9 (monotonic counters) as claimed: no step lowers the overrun counter or
\* the queue-full counter.
C9_Monotonic ==
    [][overRunCount' >= overRunCount /\ queueFullCount' >= queueFullCount]_vars

\* the k-th of the reporters built by Reporter(ReporterType)
AutoRank(r) == Cardinality({s \in 1..r : reporters[s].autoId})

\* C10 (automatic ids) as claimed: the k-th reporter built by
\* Reporter(ReporterType) has id k, and no two of them share an id.
C10_AutoIds ==
    \A r \in Constructed :
        reporters[r].autoId =>
            /\ getId(r) = AutoRank(r)
            /\ \A s \in Constructed :
                   reporters[s].autoId /\ s # r => getId(s) # getId(r)

\* the consumer is between try_get_for and its return, with rsp = rp
Holds(rp) == threads.tryGetReport.pc # "idle" /\ threads.tryGetReport.rsp = rp

\* the step belongs to a queueReport call of context c, to a tryGetReport call
ProducerStep(c) ==
    \/ threads'.queueReport[c] # threads.queueReport[c]
    \/ Len(calls') = Len(calls) /\ calls'[c] # calls[c]

ConsumerStep == threads'.tryGetReport # threads.tryGetReport \/ getCount' # getCount

\* the step is an assignment of context c's call to a member of its report_t
Assigns(c, slot) ==
    /\ threads'.queueReport[c] # threads.queueReport[c]
    /\ Frame(c).pc \in {"repType", "info", "source", "timeStampIn", "timeStampOut"}
    /\ Rp(c).slot = slot

\* C11 (single-writer slot discipline) as claimed: while the consumer is
\* between taking a pointer from the queue and clearing timeStampIn of the
\* report_t it points to, the reporter that owns that report_t assigns to none
\* of its members; a timeStampIn goes to 0 only in a step of the consumer and
\* to a nonzero value only in a step of the owning reporter.
C11_HeldStep(c, slot) == Holds(Ref(c, slot)) => ~Assigns(c, slot)

C11_FlagStep(c, slot) ==
    LET old == reporters[c][slot].timeStampIn
        new == reporters'[c][slot].timeStampIn
    IN /\ old # 0 /\ new = 0 => ConsumerStep
       /\ new # old /\ new # 0 => ProducerStep(c)

C11_SingleWriter ==
    [][\A c \in Constructed, slot \in {"lastRep", "overRunRep"} :
           Len(reporters') = Len(reporters) =>
               C11_HeldStep(c, slot) /\ C11_FlagStep(c, slot)]_vars

\* C13 (counters under concurrency) as claimed: whenever no queueReport call
\* is in progress, the overrun counter is the number of calls that took the
\* overrun branch and the queue-full counter the number of calls whose try_put
\* failed, both modulo 2^16: no increment is lost.
C13_NoLostIncrement ==
    (\A c \in Contexts : Frame(c).pc = "idle") =>
        /\ overRunCount = paths.overRun % Uint16Mod
        /\ queueFullCount = paths.queueFull % Uint16Mod

\* C12 (no free slot read as live data) as claimed: whenever tryGetReport has
\* returned true, the report_t its message pointed to had timeStampIn # 0 when
\* it was taken from the queue, so the copy handed to the caller has
\* timeStampIn # 0.
C12_LiveRead == Got => rd.timeStampIn # 0

\* C14 (bounded queue): the queue never holds more than QUEUE_SIZE messages;
\* the try_put of a queueReport call succeeds, appending its pointer, exactly
\* when the queue holds fewer than QUEUE_SIZE messages before it, and fails,
\* leaving the queue as it is, exactly when it holds QUEUE_SIZE.
C14_PutStep(r) ==
    Called(r) =>
        IF Len(reportQueue) < QUEUE_SIZE
          THEN /\ ret'.ok
               /\ reportQueue' = Append(reportQueue, [rp |-> Ref(r, ret'.slot),
                                                      seq |-> putCount + 1])
          ELSE /\ ~ret'.ok
               /\ Len(reportQueue) = QUEUE_SIZE
               /\ reportQueue' = reportQueue

C14_Bounded ==
    /\ [](Len(reportQueue) \in 0..QUEUE_SIZE)
    /\ [][\A r \in Constructed : C14_PutStep(r)]_vars

\* after a put failed on the full queue and a message was retrieved, a put
\* has filled the queue again
C14_Witness ==
    /\ Reported /\ ret.ok
    /\ Len(reportQueue) = QUEUE_SIZE
    /\ queueFullCount >= 1
    /\ getCount >= 1

\* C15 (overrun path) as claimed: a queueReport call of a reporter whose
\* current record has timeStampIn # 0 writes to the overrun record the overrun
\* type, as info the report type passed to this call, the reporter as source,
\* the time now as timeStampIn and 0 as timeStampOut; it adds exactly 1 to the
\* overrun counter and makes exactly one try_put, of the pointer to the overrun
\* record.
C15_PathStep(r) ==
    Called(r) /\ reporters[r].lastRep.timeStampIn # 0 =>
        /\ ret'.slot = "overRunRep"
        /\ \E now \in Micros :
               reporters'[r].overRunRep =
                   report_t(REPORT_OVERRUN, r, now, 0, ret'.repType)
        /\ overRunCount' = overRunCount + 1
        /\ putCount' + paths'.queueFull = putCount + paths.queueFull + 1
        /\ ret'.ok => reportQueue' = Append(reportQueue, [rp |-> Ref(r, "overRunRep"),
                                                          seq |-> putCount + 1])
        /\ ~ret'.ok => reportQueue' = reportQueue

C15_OverrunPath == [][\A r \in Constructed : C15_PathStep(r)]_vars

\* C16 (an overrun is not data corruption): a queueReport call that takes the
\* overrun branch leaves every member of the reporter's current record as it
\* is; a current record with timeStampIn # 0 changes only when the consumer
\* retrieves it, and the copy retrieved has the type, info, source and
\* timeStampIn the record held, which are those of the call that submitted it
\* (the call BurstEvent(seq) when no report was dropped before).
C16_FrameStep(r) ==
    Called(r) /\ reporters[r].lastRep.timeStampIn # 0 =>
        reporters'[r].lastRep = reporters[r].lastRep

C16_KeptStep(r) ==
    LET cur == reporters[r].lastRep
    IN cur.timeStampIn # 0 /\ reporters'[r].lastRep # cur =>
           /\ ret'.op = "tryGetReport" /\ ret'.ok
           /\ ret'.rep = r /\ ret'.slot = "lastRep"
           /\ rd'.repType = cur.repType
           /\ rd'.info = cur.info
           /\ rd'.source = cur.source
           /\ rd'.timeStampIn = cur.timeStampIn

C16_AsSubmitted ==
    Got /\ ret.slot = "lastRep" /\ ret.seq <= QUEUE_SIZE =>
        /\ rd.repType = BurstEvent(ret.seq).repType
        /\ rd.info = BurstEvent(ret.seq).info
        /\ rd.source = ret.rep
        /\ rd.timeStampIn \in BurstMicros

C16_NotCorrupted ==
    /\ []C16_AsSubmitted
    /\ [][\A r \in Constructed : C16_FrameStep(r) /\ C16_KeptStep(r)]_vars

\* the current record of a reporter that overran at least twice since has
\* been retrieved
C16_Witness ==
    /\ Got /\ ret.slot = "lastRep"
    /\ calls[ret.rep] >= 3
    /\ reporters[ret.rep].overRunRep.repType = REPORT_OVERRUN
    /\ reporters[ret.rep].overRunRep.timeStampIn # 0

\* C17 (slot stuck after a full-queue drop) as claimed: once a queueReport
\* call that used a reporter's current record was dropped for a full queue,
\* that record's timeStampIn is nonzero in every later state, whatever calls
\* and retrievals follow (no retrieval clears it), and every later call of
\* the reporter takes the overrun branch.
C17_OverrunStep(r) == r \in paths.dropped /\ Called(r) => ret'.slot = "overRunRep"

C17_Stuck ==
    /\ [](\A r \in paths.dropped : reporters[r].lastRep.timeStampIn # 0)
    /\ [][\A r \in Constructed : C17_OverrunStep(r)]_vars

\* C18 (construction initialises both records) as claimed: a reporter built by
\* either constructor has timeStampIn = 0 in its current record and in its
\* overrun record until its first queueReport call, and that call is a fresh
\* submission, not an overrun.
C18_FirstStep(r) ==
    Called(r) /\ calls[r] = 0 => ret'.slot = "lastRep" /\ overRunCount' = overRunCount

C18_Initialised ==
    /\ [](\A r \in Constructed :
              calls[r] = 0 => /\ reporters[r].lastRep.timeStampIn = 0
                              /\ reporters[r].overRunRep.timeStampIn = 0)
    /\ [][\A r \in Constructed : C18_FirstStep(r)]_vars

\* the step is a tryGetReport call that returns true
Gets == ret'.op = "tryGetReport" /\ ret'.ok /\ getCount' = getCount + 1

\* C19 (retrieval copy-out) as claimed: a successful tryGetReport copies the
\* type, source, info and timeStampIn of the report_t its message points to,
\* sets the copy's timeStampOut to the time now, writes that timeStampOut to
\* the report_t and sets its timeStampIn to 0; type, info and source of the
\* report_t, every other report_t and both counters stay as they are, and the
\* timeStampIn copied is the nonzero one the reporter wrote.
C19_FrameStep ==
    Gets =>
        LET rsp == QueueFront(reportQueue).rp
            src == Deref(reporters, rsp)
        IN /\ rd'.repType = src.repType /\ rd'.source = src.source
           /\ rd'.info = src.info /\ rd'.timeStampIn = src.timeStampIn
           /\ rd'.timeStampOut \in BurstMicros
           /\ reporters' = Store(reporters, rsp,
                                 [src EXCEPT !.timeStampOut = rd'.timeStampOut,
                                             !.timeStampIn = 0])
           /\ UNCHANGED <<overRunCount, queueFullCount>>

C19_LiveStep == Gets => rd'.timeStampIn # 0

C19_CopyOut == [][C19_FrameStep /\ C19_LiveStep]_vars

\* what the n-th queueReport call of the burst writes to the report_t it uses
BurstWritten(n, r, slot) ==
    IF slot = "lastRep"
      THEN [repType |-> BurstEvent(n).repType, info |-> BurstEvent(n).info, source |-> r]
      ELSE [repType |-> REPORT_OVERRUN, info |-> BurstEvent(n).repType, source |-> r]

\* C20 (end-to-end integrity) as claimed: the copy obtained when a message is
\* retrieved has the type, info, source and timeStampIn that the queueReport
\* call which put that message wrote (for the first QUEUE_SIZE puts, the call
\* with the put's number); and no queueReport call writes to a report_t that
\* a queued message points to, also when a reporter overruns repeatedly.
C20_AsWritten ==
    Got /\ ret.seq <= QUEUE_SIZE =>
        /\ [repType |-> rd.repType, info |-> rd.info, source |-> rd.source]
               = BurstWritten(ret.seq, ret.rep, ret.slot)
        /\ rd.timeStampIn \in BurstMicros

C20_NotRewrittenStep(r) ==
    Called(r) =>
        \A i \in 1..Len(reportQueue) : reportQueue[i].rp # Ref(r, ret'.slot)

C20_Integrity ==
    /\ []C20_AsWritten
    /\ [][\A r \in Constructed : C20_NotRewrittenStep(r)]_vars

\* C21 (no duplicate references) as claimed: the queue never holds two
\* messages that point to the same report_t, be it the current record or the
\* overrun record of a reporter.
C21_NoDuplicates ==
    \A i, j \in 1..Len(reportQueue) :
        i # j => reportQueue[i].rp # reportQueue[j].rp

\* reporter r may report afresh: its current record has timeStampIn = 0
Free(r) == r \in Constructed /\ reporters[r].lastRep.timeStampIn = 0

\* C22 (eventual acknowledgement) as claimed: with a consumer that keeps
\* calling tryGetReport, every message put is eventually retrieved, and the
\* report_t it points to has timeStampIn = 0 when the call returns; and a
\* reporter that has reported, none of whose reports was dropped for a full
\* queue, eventually has timeStampIn = 0 in its current record, so that it may
\* report afresh.
C22_ClearedStep ==
    Gets => Deref(reporters', QueueFront(reportQueue).rp).timeStampIn = 0

C22_Acknowledged ==
    /\ \A n \in 1..MaxCalls : (putCount >= n) ~> (getCount >= n)
    /\ [][C22_ClearedStep]_vars
    /\ \A r \in 1..MaxReporters :
           (r \in Constructed /\ calls[r] > 0 /\ queueFullCount = 0) ~> Free(r)

\* C23 (submitted slots are always marked) as claimed: when a queueReport call
\* has completed, the report_t it used has timeStampIn # 0, whatever micros()
\* read (0 at the start of the counter or at its wrap-around included); so the
\* current record of a reporter has timeStampIn # 0 while a queued message
\* points to it, and the reporter does not take it for free.
C23_MarkedStep(r) ==
    Called(r) => Deref(reporters', Ref(r, ret'.slot)).timeStampIn # 0

C23_QueuedMarked ==
    \A i \in 1..Len(reportQueue) :
        reportQueue[i].rp.slot = "lastRep" =>
            Deref(reporters, reportQueue[i].rp).timeStampIn # 0

C23_Marked ==
    /\ []C23_QueuedMarked
    /\ [][\A r \in Constructed : C23_MarkedStep(r)]_vars

===========================================================================
